---------------------------- MODULE Spec2Model ----------------------------
(***************************************************************************)
(* Model of the pill-permutation service.                                  *)
(*                                                                         *)
(*   src/unnamed/part_000   lines   1-200  the Dispatcher Lambda           *)
(*                          lines 202-332  an earlier Deferred Worker      *)
(*                          lines 334-472  the Deferred Worker             *)
(*   src/getNumberOfPermutations.js, src/test.js  the stand-alone Counter  *)
(*                                                                         *)
(* The earlier worker (202-332) declares `const id` inside a function      *)
(* whose parameter is `id` (line 319), an early SyntaxError: the file      *)
(* never loads, so it has no behaviour to model.                           *)
(*                                                                         *)
(* The environment variables cacheUrl and deferUrl are taken as set, as    *)
(* the headers of both Lambdas require.                                    *)
(***************************************************************************)
EXTENDS Integers, Sequences, FiniteSets, TLC

(***************************************************************************)
(* Bounds of the model.                                                    *)
(***************************************************************************)
\* the stepwise Counter is run on totals 0..MaxCount
MaxCount == 7
\* Dispatcher invocations
MaxRequests == 2
\* Deferred Worker invocations
MaxWorkers == 2
\* records per Deferred Worker batch, where batches are studied
MaxBatch == 2
\* records handed to the Deferred Worker over all its invocations
MaxRecords == 2
\* the query strings tried lie within Near of an edge of the accepted
\* domain or of the threshold
Near == 0

(***************************************************************************)
(* Program constants.                                                      *)
(***************************************************************************)
minPillsPerDay == 1
maxPillsPerDay == 2
\* `pills < 1 || pills > 47`
MinPills == 1
MaxPills == 47
\* `pills <= 43`
SyncLimit == 43

(***************************************************************************)
(* JavaScript values.  A value is a record [t, v]: t is the type and v the *)
(* number it denotes; a "string" is the decimal string of v, as the query  *)
(* string, the request bodies and the N attribute of a DynamoDB stream     *)
(* record carry numbers; a "text" is a string that is no number.           *)
(***************************************************************************)
Num(n) == [t |-> "number", v |-> n]
Str(n) == [t |-> "string", v |-> n]
Undefined == [t |-> "undefined", v |-> 0]
Text == [t |-> "text", v |-> 0]
NaN == [t |-> "NaN", v |-> 0]
False == [t |-> "boolean", v |-> 0]

IsNumeric(x) == x.t \in {"number", "string"}

\* `a > b`: both sides converted to numbers; false when one is NaN
JsGt(a, b) == IsNumeric(a) /\ IsNumeric(b) /\ a.v > b.v

\* `a === b`: no conversion, the types must agree
JsStrictEq(a, b) == a.t = b.t /\ a.t # "NaN" /\ a.v = b.v

\* `if (x)` / `!x`
Truthy(x) ==
  CASE x.t = "number" -> x.v # 0
    [] x.t = "string" -> TRUE
    [] x.t = "text" -> TRUE
    [] OTHER -> FALSE

\* `typeof x !== 'number'` then `parseInt(x)`
parseInt(x) ==
  CASE x.t = "number" -> x
    [] x.t = "string" -> Num(x.v)
    [] OTHER -> NaN

\* `x.toString()`
toString(x) == IF x.t = "number" THEN Str(x.v) ELSE x

(***************************************************************************)
(* The Counter as a value.  findPermutations(sum) increments the closure   *)
(* variable once when sum === numberOfPills, never when sum >              *)
(* numberOfPills, and otherwise as often as its calls for sum+i do.        *)
(* `above` holds, for the running sums sum+1, sum+2, ..., the number of    *)
(* increments one call makes; it is filled from the largest sum down, so   *)
(* that each call is evaluated once.  The stepwise execution below is      *)
(* checked to return the same values.                                      *)
(***************************************************************************)
RECURSIVE LoopIncrements(_, _)
LoopIncrements(above, i) ==
  IF i > maxPillsPerDay THEN 0
  ELSE above[i] + LoopIncrements(above, i + 1)

\* the tests of lines 99-100 merged into `sum >= numberOfPills`
IncrementsOvershoot(numberOfPills, sum, above) ==
  IF JsGt(Num(sum), numberOfPills) \/ JsStrictEq(Num(sum), numberOfPills) THEN 1
  ELSE LoopIncrements(above, minPillsPerDay)

\* lines 99-103: the increments of one call findPermutations(sum)
Increments(numberOfPills, sum, above) ==
  IF JsGt(Num(sum), numberOfPills) THEN 0
  ELSE IF JsStrictEq(Num(sum), numberOfPills) THEN 1
  ELSE LoopIncrements(above, minPillsPerDay)

\* the value of an expression, evaluated once
Only(S) == CHOOSE x \in S : TRUE

RECURSIVE findPermutations(_, _, _)
findPermutations(numberOfPills, sum, above) ==
  IF sum = 0 THEN Increments(numberOfPills, sum, above)
  ELSE Only({findPermutations(n, s, next) :
               n \in {numberOfPills}, s \in {sum - 1},
               next \in {SubSeq(<<Increments(numberOfPills, sum, above)>> \o above,
                                1, maxPillsPerDay)}})

\* lines 96-107
getNumberOfPermutations(numberOfPills) ==
  LET top == IF numberOfPills.v < 0 THEN 0 ELSE numberOfPills.v + 1
  IN  findPermutations(numberOfPills, top, [i \in 1..maxPillsPerDay |-> 0])

(***************************************************************************)
(* State.                                                                  *)
(***************************************************************************)
VARIABLES
  counter,     \* one stepwise execution of getNumberOfPermutations
  dispatcher,  \* the Dispatcher invocations
  worker,      \* the Deferred Worker invocations
  cache,       \* the cache table: total -> permutations
  tasks,       \* the deferred-task table: id -> record
  stream,      \* the change records the deferred-task table has emitted
  uuid,        \* the number of ids UUID() has handed out
  batchSize    \* the most records the stream hands to one worker invocation

vars == <<counter, dispatcher, worker, cache, tasks, stream, uuid, batchSize>>

Requests == 1..MaxRequests
Workers == 1..MaxWorkers

(***************************************************************************)
(* The Counter, step by step (part_000 lines 96-107).  The stack holds the *)
(* frames of findPermutations: the running sum and, once the two tests of  *)
(* lines 99-100 are passed, the loop variable i.                           *)
(***************************************************************************)
CounterInputs == {Num(n) : n \in 0..MaxCount} \cup {Str(n) : n \in 0..MaxCount}

\* `earlier` is not a variable of the program: it remembers one invocation
\* that has returned, its argument and its result
NoInvocation == [numberOfPills |-> Undefined, result |-> 0]

CounterIdle ==
  [pc |-> "idle", numberOfPills |-> Undefined, numberOfPermutations |-> 0,
   stack |-> <<>>, result |-> 0, earlier |-> NoInvocation]

Push(stack, frame) == <<frame>> \o stack

\* the count is kept across invocations, as a variable declared outside
\* the function is
InitialPermutationsKept(leftOver) == leftOver

\* line 97: `let numberOfPermutations = 0` inside the function, whatever an
\* earlier invocation left
InitialPermutations(leftOver) == 0

\* line 97 and the call of line 105; one process runs invocation after
\* invocation
CounterCall ==
  /\ counter.pc \in {"idle", "returned"}
  /\ \E n \in CounterInputs :
       \E remembered \in {counter.earlier} \cup
                         {[numberOfPills |-> counter.numberOfPills,
                           result |-> counter.result] :
                            x \in IF counter.pc = "returned" THEN {0} ELSE {}} :
         counter' = [counter EXCEPT
                       !.pc = "running", !.numberOfPills = n,
                       !.numberOfPermutations =
                          InitialPermutations(counter.numberOfPermutations),
                       !.stack = <<[sum |-> 0, at |-> "test", i |-> 0]>>,
                       !.earlier = remembered]
  /\ UNCHANGED <<dispatcher, worker, cache, tasks, stream, uuid, batchSize>>

\* lines 99-100: the two tests on entry of findPermutations
CounterTest ==
  /\ counter.pc = "running"
  /\ counter.stack # <<>>
  /\ Head(counter.stack).at = "test"
  /\ LET frame == Head(counter.stack)
         rest == Tail(counter.stack)
     IN  IF JsGt(Num(frame.sum), counter.numberOfPills)
         THEN counter' = [counter EXCEPT !.stack = rest]
         ELSE IF JsStrictEq(Num(frame.sum), counter.numberOfPills)
         THEN counter' = [counter EXCEPT !.stack = rest,
                            !.numberOfPermutations = counter.numberOfPermutations + 1]
         ELSE counter' = [counter EXCEPT !.stack =
                            Push(rest, [frame EXCEPT !.at = "loop", !.i = minPillsPerDay])]
  /\ UNCHANGED <<dispatcher, worker, cache, tasks, stream, uuid, batchSize>>

\* lines 101-103: one turn of the loop, or its end
CounterLoop ==
  /\ counter.pc = "running"
  /\ counter.stack # <<>>
  /\ Head(counter.stack).at = "loop"
  /\ LET frame == Head(counter.stack)
         rest == Tail(counter.stack)
     IN  IF frame.i <= maxPillsPerDay
         THEN counter' = [counter EXCEPT !.stack =
                            Push(Push(rest, [frame EXCEPT !.i = frame.i + 1]),
                                 [sum |-> frame.sum + frame.i, at |-> "test", i |-> 0])]
         ELSE counter' = [counter EXCEPT !.stack = rest]
  /\ UNCHANGED <<dispatcher, worker, cache, tasks, stream, uuid, batchSize>>

\* line 106
CounterReturn ==
  /\ counter.pc = "running"
  /\ counter.stack = <<>>
  /\ counter' = [counter EXCEPT !.pc = "returned",
                                !.result = counter.numberOfPermutations]
  /\ UNCHANGED <<dispatcher, worker, cache, tasks, stream, uuid, batchSize>>

CounterNext == CounterCall \/ CounterTest \/ CounterLoop \/ CounterReturn

(***************************************************************************)
(* The Dispatcher (part_000 lines 42-200).  One step runs the handler from *)
(* one await to the next.                                                  *)
(***************************************************************************)
\* the totals of the query strings tried
Edges == {MinPills - 1, SyncLimit, MaxPills}
QueryTotals ==
  UNION {{e - k, e + 1 + k} : <<e, k>> \in Edges \X (0..Near)}

\* the events: no query string, no `pills`, a text, a decimal string
Events ==
  {[hasQuery |-> FALSE, pills |-> Undefined]} \cup
  {[hasQuery |-> TRUE, pills |-> p] :
     p \in {Undefined, Text} \cup {Str(n) : n \in QueryTotals}}

\* what the callback of request() sees of a call: a 200, a transport
\* error, another status code
Outcomes == {"ok", "err", "status"}
Settled(outcome) == IF outcome = "ok" THEN "ok" ELSE "fail"
\* getFromCache also parses the body (lines 127-133)
GetOutcomes == Outcomes \cup {"parse"}

\* prepareResponse (lines 192-199) handed to callback(error, response)
Response(error, statusCode, status, permutations, id) ==
  [error |-> error, statusCode |-> statusCode, status |-> status,
   permutations |-> permutations, id |-> id]
BadRequest == Response(FALSE, 400, "", Undefined, 0)
Complete(permutations) == Response(FALSE, 200, "complete", permutations, 0)
Deferred(id) == Response(FALSE, 202, "deferred", Undefined, id)
InternalError == Response(TRUE, 500, "", Undefined, 0)

\* line 52 with `> 47` written `>= 47` and `< 1` written `< 0`
OutOfDomainShifted(pills) ==
  pills.v < MinPills - 1 \/ pills.v >= MaxPills

\* line 52
OutOfDomain(pills) == pills.v < MinPills \/ pills.v > MaxPills

\* `<= 43` written `< 43`
WithinSyncBudgetStrict(pills) == pills.v < SyncLimit

\* line 63
WithinSyncBudget(pills) == pills.v <= SyncLimit

\* the 400 answers of lines 48-52
Rejected(event) ==
  \/ ~event.hasQuery
  \/ ~Truthy(event.pills)
  \/ parseInt(event.pills) = NaN
  \/ OutOfDomain(parseInt(event.pills))

DispatcherIdle ==
  [pc |-> "idle", event |-> [hasQuery |-> FALSE, pills |-> Undefined],
   pills |-> Undefined, entry |-> Undefined, lookup |-> "none",
   numberOfPermutations |-> 0, id |-> 0, created |-> "none",
   cached |-> "none", callbacks |-> <<>>, log |-> <<>>]

\* lines 42-56: validation, then the cache is asked.  Invocations are
\* numbered in the order they start.
Handler(r) ==
  /\ dispatcher[r].pc = "idle"
  /\ \A q \in Requests : q < r => dispatcher[q].pc # "idle"
  /\ \E event \in Events :
       dispatcher' = [dispatcher EXCEPT ![r] =
         IF Rejected(event)
         THEN [@ EXCEPT !.pc = "done", !.event = event,
                        !.callbacks = Append(@, BadRequest)]
         ELSE [@ EXCEPT !.pc = "getFromCache", !.event = event,
                        !.pills = parseInt(event.pills),
                        !.log = Append(@, "getFromCache")]]
  /\ UNCHANGED <<counter, worker, cache, tasks, stream, uuid, batchSize>>

\* lines 124-134: what the promise of getFromCache settles with, given
\* the outcome of the request and body.permutations
getFromCache(outcome, permutations) ==
  IF outcome # "ok" THEN [settled |-> "reject", value |-> Undefined]
  ELSE IF Truthy(permutations) THEN [settled |-> "resolve", value |-> permutations]
  ELSE [settled |-> "resolve", value |-> False]

\* the entry of the cache table for a total, as body.permutations
CacheEntry(total) ==
  IF total \in DOMAIN cache THEN Num(cache[total]) ELSE Undefined

\* a catch block that answers 500 and returns
CatchCacheFailureSurfaced(e) == [callbacks |-> <<InternalError>>, goOn |-> FALSE]

\* lines 58-60: the catch block logs, answers nothing and lets the handler
\* go on
CatchCacheFailure(e) == [callbacks |-> <<>>, goOn |-> TRUE]

\* the hit answered without `return`: the handler goes on below
AfterHitFallsThrough(permutations) == [goOn |-> TRUE]

\* line 57: `return callback(...)`, the handler ends with the answer
AfterHit(permutations) == [goOn |-> FALSE]

\* lines 56-76: the cache has answered; a hit is sent back (57), a miss or
\* a failure goes on to compute and answer (63-69) or to defer (76)
GetFromCacheDone(r) ==
  /\ dispatcher[r].pc = "getFromCache"
  /\ \E outcome \in GetOutcomes :
       LET d == dispatcher[r]
           entry == CacheEntry(d.pills.v)
           got == getFromCache(outcome, entry)
           lookup == IF got.settled = "reject" THEN "fail"
                     ELSE IF Truthy(got.value) THEN "hit" ELSE "miss"
           caught == CatchCacheFailure(outcome)
           count == getNumberOfPermutations(d.pills)
           seen == [d EXCEPT !.lookup = lookup,
                             !.entry = IF lookup = "fail" THEN Undefined ELSE entry]
           answered == [seen EXCEPT
                          !.callbacks = Append(@, Complete(got.value)),
                          !.log = Append(@, "callback")]
       IN  CASE lookup = "hit" /\ ~AfterHit(got.value).goOn ->
                  /\ dispatcher' = [dispatcher EXCEPT ![r] =
                       [answered EXCEPT !.pc = "done"]]
                  /\ uuid' = uuid
             [] lookup = "fail" /\ ~caught.goOn ->
                  /\ dispatcher' = [dispatcher EXCEPT ![r] =
                       [seen EXCEPT !.pc = "done",
                                    !.callbacks = @ \o caught.callbacks,
                                    !.log = Append(@, "callback")]]
                  /\ uuid' = uuid
             [] OTHER ->
                  LET from == IF lookup = "hit" THEN answered ELSE seen
                  IN  IF WithinSyncBudget(d.pills)
                      THEN /\ dispatcher' = [dispatcher EXCEPT ![r] =
                                [from EXCEPT !.pc = "saveToCache",
                                             !.numberOfPermutations = count,
                                             !.callbacks = Append(@, Complete(Num(count))),
                                             !.log = @ \o <<"getNumberOfPermutations",
                                                             "callback", "saveToCache">>]]
                           /\ uuid' = uuid
                      ELSE /\ dispatcher' = [dispatcher EXCEPT ![r] =
                                [from EXCEPT !.pc = "deferTask", !.id = uuid + 1,
                                             !.log = Append(@, "deferTask")]]
                           /\ uuid' = uuid + 1
  /\ UNCHANGED <<counter, worker, cache, tasks, stream, batchSize>>

\* a catch block that answers 500
CatchSaveFailureSurfaced(e) == <<InternalError>>

\* lines 70-72: the catch block of the cache write logs and answers nothing
CatchSaveFailure(e) == <<>>

\* lines 68-72 and 154-158: the cache write has settled, after the answer
SaveToCacheDone(r) ==
  /\ dispatcher[r].pc = "saveToCache"
  /\ \E outcome \in Outcomes :
       LET d == dispatcher[r]
           key == toString(d.pills).v
           value == toString(Num(d.numberOfPermutations)).v
       IN  /\ dispatcher' = [dispatcher EXCEPT ![r] =
                [@ EXCEPT !.pc = "done", !.cached = Settled(outcome),
                          !.callbacks = IF outcome = "ok" THEN @
                                        ELSE @ \o CatchSaveFailure(outcome)]]
           /\ cache' = IF outcome = "ok"
                       THEN [k \in DOMAIN cache \cup {key} |->
                               IF k = key THEN value ELSE cache[k]]
                       ELSE cache
  /\ UNCHANGED <<counter, worker, tasks, stream, uuid, batchSize>>

\* the rejection of deferTask ignored: the id is sent back all the same
DeferAnswerIgnored(outcome, id) == <<Deferred(id)>>

\* the failure of the deferral swallowed as those of the cache are
DeferAnswerSwallowed(outcome, id) ==
  IF outcome = "ok" THEN <<Deferred(id)>> ELSE <<>>

\* lines 77-87: the callbacks made once deferTask has settled
DeferAnswer(outcome, id) ==
  IF outcome = "ok"
  THEN IF id # 0 THEN <<Deferred(id)>> ELSE <<>>
  ELSE <<InternalError>>

\* another UUID() taken for the answer
ResolvedIdFresh(id) == id + 1

\* line 181: deferTask resolves with the id it posted the task under
ResolvedId(id) == id

\* lines 76-87 and 178-182: the task is created with the posted pills; the
\* table emits its INSERT record
DeferTaskDone(r) ==
  /\ dispatcher[r].pc = "deferTask"
  /\ \E outcome \in Outcomes :
       LET d == dispatcher[r]
           posted == toString(d.pills)
       IN  /\ dispatcher' = [dispatcher EXCEPT ![r] =
                [@ EXCEPT !.pc = "done", !.created = Settled(outcome),
                          !.callbacks = @ \o DeferAnswer(outcome, ResolvedId(d.id)),
                          !.log = IF DeferAnswer(outcome, ResolvedId(d.id)) = <<>> THEN @
                                  ELSE Append(@, "callback")]]
           /\ IF outcome = "ok"
              THEN /\ tasks' = [i \in DOMAIN tasks \cup {d.id} |->
                         IF i = d.id
                         THEN [pills |-> posted.v, status |-> "PENDING",
                               permutations |-> Undefined]
                         ELSE tasks[i]]
                   /\ stream' = stream \cup
                         {[eventName |-> "INSERT", id |-> d.id, pills |-> posted]}
              ELSE UNCHANGED <<tasks, stream>>
  /\ UNCHANGED <<counter, worker, cache, uuid, batchSize>>

DispatcherNext ==
  \E r \in Requests :
    \/ Handler(r)
    \/ GetFromCacheDone(r)
    \/ SaveToCacheDone(r)
    \/ DeferTaskDone(r)

(***************************************************************************)
(* The Deferred Worker (part_000 lines 366-472).  A record of the stream   *)
(* carries the id of the task (Keys.id.S) and its pills as the table       *)
(* serialises a number (NewImage.pills.N): a decimal string.  The records  *)
(* of a batch advance independently, each from one await to the next.      *)
(***************************************************************************)
RECURSIVE SeqsUpTo(_, _)
SeqsUpTo(S, n) ==
  IF n = 0 THEN {<<>>}
  ELSE LET shorter == SeqsUpTo(S, n - 1)
       IN  shorter \cup {Append(q, x) : <<q, x>> \in shorter \X S}

\* line 372: event.Records, some records of the stream, none twice
Batches ==
  {batch \in SeqsUpTo(stream, batchSize) \ {<<>>} :
     \A i, j \in DOMAIN batch : batch[i] = batch[j] => i = j}

\* the records handed over so far
RECURSIVE Delivered(_)
Delivered(w) ==
  IF w = 0 THEN 0 ELSE Len(worker[w].Records) + Delivered(w - 1)

WorkerIdle == [pc |-> "idle", Records |-> <<>>, rec |-> <<>>, callbacks |-> <<>>]

RecordStart(record) ==
  [pc |-> IF record.eventName = "INSERT" THEN "updateInProgress" ELSE "done",
   numberOfPermutations |-> 0, inProgress |-> "none", complete |-> "none",
   cached |-> "none", log |-> <<>>]

\* every event name handled as a creation
IsCreationAny(record) == TRUE

\* line 374
IsCreation(record) == record.eventName = "INSERT"

\* lines 366-377: the map starts every record; an INSERT record asks for
\* the IN_PROGRESS update, any other record is finished at once
WorkerHandler(w) ==
  /\ worker[w].pc = "idle"
  /\ \A x \in Workers : x < w => worker[x].pc # "idle"
  /\ \E batch \in Batches :
       /\ Delivered(MaxWorkers) + Len(batch) <= MaxRecords
       /\ worker' = [worker EXCEPT ![w] =
         [@ EXCEPT !.pc = "running", !.Records = batch,
                   !.rec = [i \in 1..Len(batch) |->
                              IF IsCreation(batch[i])
                              THEN [RecordStart(batch[i]) EXCEPT
                                      !.pc = "updateInProgress",
                                      !.log = <<"updateTask IN_PROGRESS">>]
                              ELSE [RecordStart(batch[i]) EXCEPT !.pc = "done"]]]]
  /\ UNCHANGED <<counter, dispatcher, cache, tasks, stream, uuid, batchSize>>

\* line 462: the body of the PUT
UpdateBody(status, permutations) ==
  [status |-> status,
   permutations |-> IF Truthy(permutations) THEN toString(permutations)
                    ELSE Str(0)]

\* the table applies a PUT: status and permutations are set from the body
\* and a MODIFY record is emitted
PutTask(id, body) ==
  /\ tasks' = [tasks EXCEPT ![id] =
                 [@ EXCEPT !.status = body.status,
                           !.permutations = Num(body.permutations.v)]]
  /\ stream' = stream \cup
       {[eventName |-> "MODIFY", id |-> id, pills |-> Str(tasks[id].pills)]}

\* a catch block that gives the record up
CatchInProgressFailureReturns(e) == [goOn |-> FALSE]

\* lines 378-380: the catch block of the IN_PROGRESS update logs and lets
\* the record go on
CatchInProgressFailure(e) == [goOn |-> TRUE]

\* lines 376-387: the IN_PROGRESS update has settled (a failure is logged);
\* the count is computed from NewImage.pills.N and the COMPLETE update asked
UpdateInProgressDone(w, i) ==
  /\ worker[w].pc = "running"
  /\ i \in 1..Len(worker[w].Records)
  /\ worker[w].rec[i].pc = "updateInProgress"
  /\ \E outcome \in Outcomes :
       LET record == worker[w].Records[i]
           goOn == outcome = "ok" \/ CatchInProgressFailure(outcome).goOn
       IN  /\ worker' = [worker EXCEPT ![w].rec[i] =
                IF goOn
                THEN [@ EXCEPT !.pc = "updateComplete",
                               !.inProgress = Settled(outcome),
                               !.numberOfPermutations =
                                  getNumberOfPermutations(record.pills),
                               !.log = @ \o <<"getNumberOfPermutations",
                                               "updateTask COMPLETE">>]
                ELSE [@ EXCEPT !.pc = "done", !.inProgress = Settled(outcome)]]
           /\ IF outcome = "ok"
              THEN PutTask(record.id, UpdateBody("IN_PROGRESS", Undefined))
              ELSE UNCHANGED <<tasks, stream>>
  /\ UNCHANGED <<counter, dispatcher, cache, uuid, batchSize>>

\* a catch block that gives the record up
CatchCompleteFailureReturns(e) == [goOn |-> FALSE]

\* lines 388-390: the catch block of the COMPLETE update logs and lets the
\* record go on
CatchCompleteFailure(e) == [goOn |-> TRUE]

\* lines 386-394: the COMPLETE update has settled (a failure is logged);
\* the cache write is asked
UpdateCompleteDone(w, i) ==
  /\ worker[w].pc = "running"
  /\ i \in 1..Len(worker[w].Records)
  /\ worker[w].rec[i].pc = "updateComplete"
  /\ \E outcome \in Outcomes :
       LET record == worker[w].Records[i]
           count == worker[w].rec[i].numberOfPermutations
           goOn == outcome = "ok" \/ CatchCompleteFailure(outcome).goOn
       IN  /\ worker' = [worker EXCEPT ![w].rec[i] =
                [@ EXCEPT !.pc = IF goOn THEN "saveToCache" ELSE "done",
                          !.complete = Settled(outcome),
                          !.log = IF goOn THEN Append(@, "saveToCache") ELSE @]]
           /\ IF outcome = "ok"
              THEN PutTask(record.id, UpdateBody("COMPLETE", Num(count)))
              ELSE UNCHANGED <<tasks, stream>>
  /\ UNCHANGED <<counter, dispatcher, cache, uuid, batchSize>>

\* lines 393-397 and 439-443: the cache write has settled
WorkerSaveToCacheDone(w, i) ==
  /\ worker[w].pc = "running"
  /\ i \in 1..Len(worker[w].Records)
  /\ worker[w].rec[i].pc = "saveToCache"
  /\ \E outcome \in Outcomes :
       LET record == worker[w].Records[i]
           key == toString(record.pills).v
           value == toString(Num(worker[w].rec[i].numberOfPermutations)).v
       IN  /\ worker' = [worker EXCEPT ![w].rec[i] =
                [@ EXCEPT !.pc = "done", !.cached = Settled(outcome)]]
           /\ cache' = IF outcome = "ok"
                       THEN [k \in DOMAIN cache \cup {key} |->
                               IF k = key THEN value ELSE cache[k]]
                       ELSE cache
  /\ UNCHANGED <<counter, dispatcher, tasks, stream, uuid, batchSize>>

\* the promises of the records not awaited
AllSettledNotAwaited(rec) == TRUE

\* lines 371 and 399: `await Promise.all(...)`, every record's promise has
\* resolved
AllSettled(rec) == \A i \in DOMAIN rec : rec[i].pc = "done"

\* lines 399-402: Promise.all has settled, callback(null)
WorkerCallback(w) ==
  /\ worker[w].pc = "running"
  /\ AllSettled(worker[w].rec)
  /\ worker' = [worker EXCEPT ![w] =
       [@ EXCEPT !.pc = "done", !.callbacks = Append(@, [error |-> FALSE])]]
  /\ UNCHANGED <<counter, dispatcher, cache, tasks, stream, uuid, batchSize>>

WorkerNext ==
  \E w \in Workers :
    \/ WorkerHandler(w)
    \/ WorkerCallback(w)
    \/ \E i \in 1..MaxBatch :
         \/ UpdateInProgressDone(w, i)
         \/ UpdateCompleteDone(w, i)
         \/ WorkerSaveToCacheDone(w, i)

(***************************************************************************)
(* Specifications.                                                         *)
(***************************************************************************)
Init ==
  /\ counter = CounterIdle
  /\ dispatcher = [r \in Requests |-> DispatcherIdle]
  /\ worker = [w \in Workers |-> WorkerIdle]
  /\ cache = [k \in {} |-> 0]
  /\ tasks = [i \in {} |-> 0]
  /\ stream = {}
  /\ uuid = 0
  /\ batchSize = 1

\* the service: Dispatcher and Deferred Worker invocations over the tables,
\* the stream handing over one record per worker invocation
Next == DispatcherNext \/ WorkerNext
Spec == Init /\ [][Next]_vars

\* the state of a Dispatcher invocation that has deferred a total
Deferral(total, id) ==
  [DispatcherIdle EXCEPT
     !.pc = "done", !.event = [hasQuery |-> TRUE, pills |-> Str(total)],
     !.pills = Num(total), !.lookup = "miss", !.id = id, !.created = "ok",
     !.callbacks = <<Deferred(id)>>,
     !.log = <<"getFromCache", "deferTask", "callback">>]

\* the service once every Dispatcher invocation has deferred its total:
\* one PENDING task and one INSERT record for each
WorkerInit ==
  /\ counter = CounterIdle
  /\ \E total \in [Requests -> {n \in QueryTotals : SyncLimit < n /\ n <= MaxPills}] :
       /\ dispatcher = [r \in Requests |-> Deferral(total[r], r)]
       /\ tasks = [r \in Requests |->
                    [pills |-> total[r], status |-> "PENDING",
                     permutations |-> Undefined]]
       /\ stream = {[eventName |-> "INSERT", id |-> r, pills |-> Str(total[r])] :
                      r \in Requests}
  /\ worker = [w \in Workers |-> WorkerIdle]
  /\ cache = [k \in {} |-> 0]
  /\ uuid = MaxRequests
  /\ batchSize \in 1..MaxBatch

\* the Deferred Worker alone, on the tasks the Dispatcher has created, the
\* stream handing over batches of up to MaxBatch records
WorkerSpec == WorkerInit /\ [][WorkerNext]_vars

\* the Deferred Worker alone, every request() calling back and the
\* handler resumed once its promises have settled: a pending step of the
\* worker is taken
FairWorkerSpec ==
  /\ WorkerInit /\ [][WorkerNext]_vars
  /\ \A w \in Workers :
       /\ WF_vars(WorkerCallback(w))
       /\ \A i \in 1..MaxBatch :
            /\ WF_vars(UpdateInProgressDone(w, i))
            /\ WF_vars(UpdateCompleteDone(w, i))
            /\ WF_vars(WorkerSaveToCacheDone(w, i))

\* the Counter alone
CounterSpec == Init /\ [][CounterNext]_vars

\* the Dispatcher alone, every request() calling back: a pending step of
\* the Dispatcher is taken
FairSpec ==
  /\ Init /\ [][DispatcherNext]_vars
  /\ \A r \in Requests :
       /\ WF_vars(GetFromCacheDone(r))
       /\ WF_vars(SaveToCacheDone(r))
       /\ WF_vars(DeferTaskDone(r))

(***************************************************************************)
(* Reference values, for the properties only.                              *)
(***************************************************************************)
\* Count(0) = Count(1) = 1, Count(n) = Count(n-1) + Count(n-2)
RECURSIVE CountFrom(_, _, _)
CountFrom(n, a, b) ==
  IF n = 0 THEN a
  ELSE Only({CountFrom(m, x, y) : m \in {n - 1}, x \in {b}, y \in {a + b}})
Count(n) == CountFrom(n, 1, 1)

\* the ordered sequences over {1,2} that sum to n
RECURSIVE SeqSum(_)
SeqSum(s) == IF s = <<>> THEN 0 ELSE Head(s) + SeqSum(Tail(s))
DoseSequences(n) ==
  {s \in UNION {[1..k -> {1, 2}] : k \in 0..n} : SeqSum(s) = n}

\* Count(n) exceeds 2^31 from n = 46 on: the reference is kept in two limbs
Limb == 1000 * 1000 * 1000
WideAdd(x, y) ==
  <<x[1] + y[1] + ((x[2] + y[2]) \div Limb), (x[2] + y[2]) % Limb>>
RECURSIVE WideCountFrom(_, _, _)
WideCountFrom(n, a, b) ==
  IF n = 0 THEN a
  ELSE Only({WideCountFrom(m, x, y) :
               m \in {n - 1}, x \in {b}, y \in {WideAdd(a, b)}})
WideCount(n) == WideCountFrom(n, <<0, 1>>, <<0, 1>>)
\* value = Count(n), for a value the program holds
IsCount(value, n) == n >= 0 /\ <<value \div Limb, value % Limb>> = WideCount(n)

(***************************************************************************)
(* Properties.                                                             *)
(***************************************************************************)
Did(r, what) ==
  \E k \in DOMAIN dispatcher[r].log : dispatcher[r].log[k] = what

\* the request carried a decimal total
Total(r) == dispatcher[r].event.pills.v
HasTotal(r) ==
  /\ dispatcher[r].pc # "idle"
  /\ dispatcher[r].event.hasQuery
  /\ dispatcher[r].event.pills.t = "string"
ValidTotal(r) == HasTotal(r) /\ Total(r) \in MinPills..MaxPills

\* the one answer is Completed(Count(total))
CompletedWithCount(r) ==
  /\ Len(dispatcher[r].callbacks) = 1
  /\ dispatcher[r].callbacks[1].statusCode = 200
  /\ ~dispatcher[r].callbacks[1].error
  /\ dispatcher[r].callbacks[1].permutations.t = "number"
  /\ IsCount(dispatcher[r].callbacks[1].permutations.v, Total(r))

\* the one answer is Deferred(taskId) with the id of the request
DeferredWithId(r) ==
  /\ dispatcher[r].id # 0
  /\ dispatcher[r].callbacks = <<Deferred(dispatcher[r].id)>>

\* C1: for every total n of 0..MaxCount the Counter returns the number of
\* ordered sequences over {1,2} that sum to n, which is Count(n) with
\* Count(0) = Count(1) = 1 and Count(n) = Count(n-1) + Count(n-2); the
\* Counter as a value returns what its stepwise execution returns.
C1_CounterCounts ==
  (counter.pc = "returned" /\ counter.numberOfPills.t = "number") =>
    /\ counter.result = Count(counter.numberOfPills.v)
    /\ counter.result = Cardinality(DoseSequences(counter.numberOfPills.v))
    /\ counter.result = getNumberOfPermutations(counter.numberOfPills)

C1_Witness ==
  /\ counter.pc = "returned"
  /\ counter.numberOfPills = Num(5)
  /\ counter.result = 8

\* C2 as amended: after a cache miss, a total <= 43 is answered
\* Completed(Count(total)) and no task is created for it; a total of 44..47
\* never has the Counter invoked and, when the creation of its task
\* succeeds, is answered Deferred(taskId) with a non-empty id.
C2_Threshold ==
  \A r \in Requests :
    (ValidTotal(r) /\ dispatcher[r].lookup = "miss") =>
      IF Total(r) <= SyncLimit
      THEN /\ CompletedWithCount(r)
           /\ ~Did(r, "deferTask")
           /\ dispatcher[r].created = "none"
      ELSE /\ ~Did(r, "getNumberOfPermutations")
           /\ dispatcher[r].created = "ok" =>
                (DeferredWithId(r) /\ dispatcher[r].id \in DOMAIN tasks)

C2_Witness ==
  \E r, q \in Requests :
    /\ dispatcher[r].lookup = "miss" /\ Total(r) = SyncLimit
    /\ CompletedWithCount(r)
    /\ dispatcher[q].lookup = "miss" /\ Total(q) = SyncLimit + 1
    /\ dispatcher[q].created = "ok" /\ DeferredWithId(q)

\* C2 as claimed: after a cache miss, a total <= 43 is answered
\* Completed(Count(total)) without a task, and a total of 44..47 is answered
\* Deferred(taskId) with a non-empty id without the Counter.
C2_Original ==
  \A r \in Requests :
    (ValidTotal(r) /\ dispatcher[r].lookup = "miss") =>
      IF Total(r) <= SyncLimit
      THEN /\ CompletedWithCount(r)
           /\ ~Did(r, "deferTask")
      ELSE /\ ~Did(r, "getNumberOfPermutations")
           /\ dispatcher[r].pc = "done" => DeferredWithId(r)

\* C3: a request whose total has a cache entry (total, v) when the cache
\* answers is answered Completed(v) with the stored v, without the Counter
\* and without a deferred task.
C3_CacheHit ==
  \A r \in Requests :
    (ValidTotal(r) /\ dispatcher[r].lookup \in {"hit", "miss"}
       /\ dispatcher[r].entry # Undefined) =>
      /\ dispatcher[r].callbacks = <<Complete(dispatcher[r].entry)>>
      /\ ~Did(r, "getNumberOfPermutations")
      /\ ~Did(r, "deferTask")

Place(log, what) ==
  IF \E k \in DOMAIN log : log[k] = what
  THEN CHOOSE k \in DOMAIN log : log[k] = what
  ELSE 0

\* C5: for every INSERT record delivered, the worker asks for the
\* IN_PROGRESS update before the COMPLETE update, and a task marked
\* COMPLETE holds as its result Count(total), total being the pills of the
\* task.
C5_EndToEnd ==
  /\ \A w \in Workers : \A i \in DOMAIN worker[w].rec :
       Place(worker[w].rec[i].log, "updateTask COMPLETE") # 0 =>
         /\ Place(worker[w].rec[i].log, "updateTask IN_PROGRESS") # 0
         /\ Place(worker[w].rec[i].log, "updateTask IN_PROGRESS")
              < Place(worker[w].rec[i].log, "updateTask COMPLETE")
  /\ \A id \in DOMAIN tasks :
       tasks[id].status = "COMPLETE" =>
         /\ tasks[id].permutations.t = "number"
         /\ IsCount(tasks[id].permutations.v, tasks[id].pills)

\* C6: once a worker invocation has marked a task COMPLETE, no later write
\* (of a second invocation on the same notification) replaces its status or
\* its result with a different value.
C6_DuplicateDelivery ==
  [][\A id \in DOMAIN tasks :
       tasks[id].status = "COMPLETE" => tasks'[id] = tasks[id]]_vars

\* C7 as amended: when the cache lookup fails, the answer is the one of a
\* miss: Completed(Count(total)) for a total <= 43; for a total > 43,
\* Deferred(taskId) when the creation of the task succeeds and the internal
\* error when it fails; the cache failure itself is never surfaced.
C7_CacheFailure ==
  \A r \in Requests :
    (ValidTotal(r) /\ dispatcher[r].lookup = "fail") =>
      IF Total(r) <= SyncLimit
      THEN CompletedWithCount(r)
      ELSE /\ dispatcher[r].pc = "deferTask" => dispatcher[r].callbacks = <<>>
           /\ dispatcher[r].created = "ok" => DeferredWithId(r)
           /\ dispatcher[r].created = "fail" =>
                dispatcher[r].callbacks = <<InternalError>>
           /\ dispatcher[r].pc \in {"deferTask", "done"}

C7_Witness ==
  \E r, q \in Requests :
    /\ dispatcher[r].lookup = "fail" /\ Total(r) = SyncLimit
    /\ CompletedWithCount(r)
    /\ dispatcher[q].lookup = "fail" /\ Total(q) = MaxPills
    /\ DeferredWithId(q)

\* C7 as claimed: when the cache lookup fails, the answer is
\* Completed(Count(total)) for a total <= 43 and Deferred(taskId) for a
\* total > 43.
C7_Original ==
  \A r \in Requests :
    (ValidTotal(r) /\ dispatcher[r].lookup = "fail") =>
      IF Total(r) <= SyncLimit
      THEN CompletedWithCount(r)
      ELSE dispatcher[r].pc = "done" => DeferredWithId(r)

\* C8: when the creation of the deferred task fails, for a total > 43 whose
\* cache lookup missed or failed, the one answer is the internal error
\* (500), never Deferred nor Completed.
C8_CreationFailure ==
  \A r \in Requests :
    dispatcher[r].created = "fail" =>
      /\ ValidTotal(r) /\ Total(r) > SyncLimit
      /\ dispatcher[r].lookup \in {"miss", "fail"}
      /\ Len(dispatcher[r].callbacks) = 1
      /\ dispatcher[r].callbacks[1].statusCode = 500
      /\ dispatcher[r].callbacks[1].error

C8_Witness ==
  \E r, q \in Requests :
    /\ dispatcher[r].created = "fail" /\ dispatcher[r].lookup = "miss"
    /\ dispatcher[r].callbacks = <<InternalError>>
    /\ dispatcher[q].created = "fail" /\ dispatcher[q].lookup = "fail"
    /\ dispatcher[q].callbacks = <<InternalError>>

Answered(r) == dispatcher[r].callbacks # <<>>

\* an error answer comes with a failed creation of the task and only then
AnswerFitsCreation(r) ==
  \A k \in DOMAIN dispatcher[r].callbacks :
    IF dispatcher[r].created = "fail"
    THEN /\ dispatcher[r].callbacks[k].error
         /\ dispatcher[r].callbacks[k].statusCode = 500
    ELSE /\ ~dispatcher[r].callbacks[k].error
         /\ ValidTotal(r) => dispatcher[r].callbacks[k].statusCode \in {200, 202}

\* C9: every request with a valid total is eventually answered; the answer
\* is Completed (200) or Deferred (202), unless the creation of the task
\* failed, and then it is the internal error (500); failures of the cache
\* read or write alone give no error answer.
C9_Answered ==
  /\ \A r \in Requests : ValidTotal(r) ~> Answered(r)
  /\ [](\A r \in Requests : AnswerFitsCreation(r))

C9_Witness ==
  \E r, q \in Requests :
    /\ ValidTotal(r) /\ dispatcher[r].lookup = "fail"
    /\ dispatcher[r].cached = "fail"
    /\ dispatcher[r].callbacks # <<>>
    /\ dispatcher[r].callbacks[1].statusCode = 200
    /\ ValidTotal(q) /\ dispatcher[q].created = "fail"
    /\ dispatcher[q].callbacks = <<InternalError>>

\* C10: every entry (total, value) of the cache has value = Count(total).
C10_CacheValue ==
  \A total \in DOMAIN cache : IsCount(cache[total], total)

C12_NoRedeferral ==
  \A r \in Requests :
    (ValidTotal(r) /\ Total(r) > SyncLimit
       /\ dispatcher[r].lookup \in {"hit", "miss"}
       /\ dispatcher[r].entry # Undefined
       /\ \E w \in Workers : \E i \in DOMAIN worker[w].rec :
            /\ worker[w].Records[i].pills.v = Total(r)
            /\ worker[w].rec[i].cached = "ok") =>
      /\ dispatcher[r].lookup = "hit"
      /\ CompletedWithCount(r)
      /\ dispatcher[r].id = 0
      /\ dispatcher[r].created = "none"

\* C13: a task holds a result only while its status is COMPLETE, and a
\* step that leaves a task IN_PROGRESS leaves its result as it was.
C13_ResultOnlyComplete ==
  /\ [](\A id \in DOMAIN tasks :
          tasks[id].permutations # Undefined => tasks[id].status = "COMPLETE")
  /\ [][\A id \in DOMAIN tasks :
          tasks'[id].status = "IN_PROGRESS" =>
            tasks'[id].permutations = tasks[id].permutations]_vars

\* C14: on the synchronous path the answer Completed(count) is given before
\* the cache write is asked for, and it is the one answer of the request
\* while the write is pending, after the write has succeeded and after it
\* has failed.
C14_AnswerBeforeWrite ==
  \A r \in Requests :
    Did(r, "saveToCache") =>
      /\ Place(dispatcher[r].log, "callback") # 0
      /\ Place(dispatcher[r].log, "callback")
           < Place(dispatcher[r].log, "saveToCache")
      /\ dispatcher[r].callbacks =
           <<Complete(Num(dispatcher[r].numberOfPermutations))>>
      /\ CompletedWithCount(r)
      /\ dispatcher[r].pc = "saveToCache" <=> dispatcher[r].cached = "none"

C14_Witness ==
  \E r, q \in Requests :
    /\ dispatcher[r].cached = "fail" /\ CompletedWithCount(r)
    /\ dispatcher[q].cached = "ok" /\ CompletedWithCount(q)
    /\ Total(q) \in DOMAIN cache

\* the entries of the log of a record of a batch
Asked(w, i, what) == Place(worker[w].rec[i].log, what) # 0

\* C15: when the IN_PROGRESS update of a record has failed, the worker has
\* all the same computed Count(total) and asked for the COMPLETE update
\* with it, and asks for the cache write once that update has settled.
C15_InProgressFailure ==
  \A w \in Workers : \A i \in DOMAIN worker[w].rec :
    worker[w].rec[i].inProgress = "fail" =>
      /\ Asked(w, i, "getNumberOfPermutations")
      /\ IsCount(worker[w].rec[i].numberOfPermutations,
                 worker[w].Records[i].pills.v)
      /\ Asked(w, i, "updateTask COMPLETE")
      /\ worker[w].rec[i].complete # "none" => Asked(w, i, "saveToCache")

\* the record is the one INSERT record delivered for its task
OnlyDelivery(w, i) ==
  \A x \in Workers : \A j \in DOMAIN worker[x].Records :
    (worker[x].Records[j].eventName = "INSERT"
       /\ worker[x].Records[j].id = worker[w].Records[i].id) =>
      (x = w /\ j = i)

\* how often an entry is in the log of a record
Times(log, what) == Cardinality({k \in DOMAIN log : log[k] = what})

\* C16: when the COMPLETE update of a record fails after its IN_PROGRESS
\* update succeeded, the update is asked for once only, the task stays
\* IN_PROGRESS as long as its notification is not delivered again, and the
\* cache write is asked for all the same, an entry for the total being in
\* the cache once it has succeeded.
C16_StallOnFailedCompletion ==
  \A w \in Workers : \A i \in DOMAIN worker[w].rec :
    (worker[w].rec[i].inProgress = "ok" /\ worker[w].rec[i].complete = "fail") =>
      /\ Times(worker[w].rec[i].log, "updateTask COMPLETE") = 1
      /\ OnlyDelivery(w, i) =>
           tasks[worker[w].Records[i].id].status = "IN_PROGRESS"
      /\ Asked(w, i, "saveToCache")
      /\ worker[w].rec[i].pc \in {"saveToCache", "done"}
      /\ worker[w].rec[i].pc = "done" <=> worker[w].rec[i].cached # "none"
      /\ worker[w].rec[i].cached = "ok" =>
           /\ worker[w].Records[i].pills.v \in DOMAIN cache
           /\ cache[worker[w].Records[i].pills.v]
                = worker[w].rec[i].numberOfPermutations

C16_Witness ==
  \E w \in Workers : \E i \in DOMAIN worker[w].rec :
    /\ worker[w].pc = "done"
    /\ \A x \in Workers : worker[x].pc = "done"
    /\ worker[w].rec[i].inProgress = "ok"
    /\ worker[w].rec[i].complete = "fail"
    /\ worker[w].rec[i].cached = "ok"
    /\ OnlyDelivery(w, i)
    /\ tasks[worker[w].Records[i].id].status = "IN_PROGRESS"

\* C17: a record whose event name is not INSERT is finished as soon as it
\* is handed over: no update, no Counter invocation and no cache write is
\* asked for it, and the steps of an invocation whose records are all of
\* that kind leave the task table, its stream and the cache as they were.
C17_NonCreationIgnored ==
  /\ [](\A w \in Workers : \A i \in DOMAIN worker[w].Records :
          worker[w].Records[i].eventName # "INSERT" =>
            /\ worker[w].rec[i].pc = "done"
            /\ worker[w].rec[i].log = <<>>
            /\ worker[w].rec[i].numberOfPermutations = 0
            /\ worker[w].rec[i].inProgress = "none"
            /\ worker[w].rec[i].complete = "none"
            /\ worker[w].rec[i].cached = "none")
  /\ [][(\E w \in Workers :
           /\ worker'[w] # worker[w]
           /\ \A i \in DOMAIN worker'[w].Records :
                worker'[w].Records[i].eventName # "INSERT") =>
          (tasks' = tasks /\ stream' = stream /\ cache' = cache)]_vars

C17_Witness ==
  \E w \in Workers :
    /\ worker[w].pc = "done"
    /\ worker[w].callbacks = <<[error |-> FALSE]>>
    /\ worker[w].Records # <<>>
    /\ \A i \in DOMAIN worker[w].Records :
         worker[w].Records[i].eventName = "MODIFY"
    /\ \E id \in DOMAIN tasks : tasks[id].status = "IN_PROGRESS"

\* what the updates of one record that have succeeded leave in its task
TaskAfter(pills, r) ==
  [pills |-> pills,
   status |-> IF r.complete = "ok" THEN "COMPLETE"
              ELSE IF r.inProgress = "ok" THEN "IN_PROGRESS" ELSE "PENDING",
   permutations |-> IF r.complete = "ok" THEN Num(r.numberOfPermutations)
                    ELSE IF r.inProgress = "ok" THEN Num(0) ELSE Undefined]

\* the next step of a record that is not finished can be taken
CanStep(w, i) ==
  CASE worker[w].rec[i].pc = "updateInProgress" -> ENABLED UpdateInProgressDone(w, i)
    [] worker[w].rec[i].pc = "updateComplete" -> ENABLED UpdateCompleteDone(w, i)
    [] worker[w].rec[i].pc = "saveToCache" -> ENABLED WorkerSaveToCacheDone(w, i)
    [] OTHER -> TRUE

\* C18: whatever the order in which the records of a batch take their
\* steps, and whatever updates and cache writes of the other records fail:
\* the next step of an unfinished record can be taken; a finished INSERT
\* record has had both updates, the Counter and the cache write asked for;
\* the invocation ends only with all its records finished; the task of a
\* record (delivered once) holds what the record's own successful updates
\* put there, and the cache holds exactly the totals whose write succeeded,
\* each with the count computed for its record.
C18_BatchIndependence ==
  /\ \A w \in Workers : \A i \in DOMAIN worker[w].rec :
       /\ CanStep(w, i)
       /\ (worker[w].Records[i].eventName = "INSERT"
             /\ worker[w].rec[i].pc = "done") =>
            worker[w].rec[i].log =
              <<"updateTask IN_PROGRESS", "getNumberOfPermutations",
                "updateTask COMPLETE", "saveToCache">>
       /\ worker[w].pc = "done" => worker[w].rec[i].pc = "done"
       /\ (worker[w].Records[i].eventName = "INSERT" /\ OnlyDelivery(w, i)) =>
            tasks[worker[w].Records[i].id] =
              TaskAfter(worker[w].Records[i].pills.v, worker[w].rec[i])
       /\ worker[w].rec[i].cached = "ok" =>
            /\ worker[w].Records[i].pills.v \in DOMAIN cache
            /\ cache[worker[w].Records[i].pills.v] =
                 worker[w].rec[i].numberOfPermutations
  /\ DOMAIN cache =
       {worker[w].Records[i].pills.v :
          <<w, i>> \in {<<x, j>> \in Workers \X (1..MaxBatch) :
                          /\ j \in DOMAIN worker[x].rec
                          /\ worker[x].rec[j].cached = "ok"}}

\* one batch of two INSERT records: every port call of the first has
\* failed, every one of the second has succeeded
C18_Witness ==
  \E w \in Workers :
    /\ worker[w].pc = "done"
    /\ Len(worker[w].Records) = 2
    /\ worker[w].Records[1].eventName = "INSERT"
    /\ worker[w].Records[2].eventName = "INSERT"
    /\ worker[w].rec[1].inProgress = "fail"
    /\ worker[w].rec[1].complete = "fail"
    /\ worker[w].rec[1].cached = "fail"
    /\ tasks[worker[w].Records[1].id].status = "PENDING"
    /\ worker[w].rec[2].inProgress = "ok"
    /\ worker[w].rec[2].complete = "ok"
    /\ worker[w].rec[2].cached = "ok"
    /\ tasks[worker[w].Records[2].id].status = "COMPLETE"

\* C19: the tasks are those the Dispatcher created, one for each request
\* whose creation succeeded, under the id the request is answered with; the
\* request is answered Deferred(id) in the step that creates the task,
\* whatever the worker has done.  A step of the Dispatcher leaves every
\* task there is as it was and creates at most one, PENDING and without a
\* result; a step that changes a task there is is a step of the worker.
C19_SoleWriter ==
  /\ [](/\ DOMAIN tasks = {dispatcher[r].id :
                             r \in {q \in Requests : dispatcher[q].created = "ok"}}
        /\ \A r \in Requests :
             /\ dispatcher[r].created = "ok" =>
                  /\ DeferredWithId(r)
                  /\ tasks[dispatcher[r].id].pills = Total(r)
             /\ \A q \in Requests :
                  (dispatcher[r].id # 0 /\ dispatcher[q].id = dispatcher[r].id)
                    => q = r)
  /\ [][dispatcher' # dispatcher =>
          /\ \A id \in DOMAIN tasks :
               id \in DOMAIN tasks' /\ tasks'[id] = tasks[id]
          /\ Cardinality(DOMAIN tasks' \ DOMAIN tasks) <= 1
          /\ \A id \in DOMAIN tasks' \ DOMAIN tasks :
               /\ tasks'[id].status = "PENDING"
               /\ tasks'[id].permutations = Undefined]_vars
  /\ [][(\E id \in DOMAIN tasks : tasks'[id] # tasks[id]) =>
          (worker' # worker /\ dispatcher' = dispatcher)]_vars

\* a request answered Deferred while no worker has started
C19_Witness ==
  \E r \in Requests :
    /\ DeferredWithId(r)
    /\ tasks[dispatcher[r].id].status = "PENDING"
    /\ \A w \in Workers : worker[w].pc = "idle"
    /\ \E q \in Requests : q # r /\ DeferredWithId(q)

\* the place of a status in the order PENDING, IN_PROGRESS, COMPLETE
Rank(status) ==
  CASE status = "PENDING" -> 0
    [] status = "IN_PROGRESS" -> 1
    [] status = "COMPLETE" -> 2

\* C20: no step takes the status of a task backwards in the order PENDING,
\* IN_PROGRESS, COMPLETE, also when its notification is delivered twice or
\* to two invocations at once; a COMPLETE task keeps its result.
C20_NoRegress ==
  [][\A id \in DOMAIN tasks :
       /\ Rank(tasks'[id].status) >= Rank(tasks[id].status)
       /\ Rank(tasks[id].status) = 2 =>
            tasks'[id].permutations = tasks[id].permutations]_vars

\* C21: a Dispatcher invocation calls its callback at most once, whatever
\* the outcomes of the cache read, the cache write and the task creation:
\* once an invocation has answered, no later step of it adds or changes an
\* answer.
C21_AtMostOneAnswer ==
  /\ [](\A r \in Requests : Len(dispatcher[r].callbacks) <= 1)
  /\ [][\A r \in Requests :
          dispatcher[r].callbacks # <<>> =>
            dispatcher'[r].callbacks = dispatcher[r].callbacks]_vars

\* a synchronous answer whose cache write is done, and a cache hit on the
\* entry it wrote, answered and finished
C21_Witness ==
  \E r, q \in Requests :
    /\ dispatcher[q].cached = "ok" /\ dispatcher[q].pc = "done"
    /\ Len(dispatcher[q].callbacks) = 1
    /\ dispatcher[r].lookup = "hit" /\ dispatcher[r].pc = "done"
    /\ Total(r) = Total(q)
    /\ dispatcher[r].callbacks = dispatcher[q].callbacks

Signalled(w) == worker[w].callbacks # <<>>
Started(w) == worker[w].pc # "idle"

\* C22: a worker invocation calls back only when every record of its batch
\* is finished (an INSERT record with both updates, the Counter and the
\* cache write behind it), it calls back once and without an error whatever
\* updates and cache writes have failed, and every invocation that has
\* started does call back.
C22_CompletionSignal ==
  /\ [](\A w \in Workers :
          /\ Signalled(w) =>
               /\ worker[w].callbacks = <<[error |-> FALSE]>>
               /\ worker[w].pc = "done"
               /\ \A i \in DOMAIN worker[w].rec :
                    /\ worker[w].rec[i].pc = "done"
                    /\ worker[w].Records[i].eventName = "INSERT" =>
                         /\ worker[w].rec[i].inProgress # "none"
                         /\ worker[w].rec[i].complete # "none"
                         /\ worker[w].rec[i].cached # "none"
          /\ worker[w].pc = "done" => Signalled(w))
  /\ \A w \in Workers : Started(w) ~> Signalled(w)

\* a batch of two INSERT records, every update and cache write of which
\* has failed, and the invocation has called back without an error
C22_Witness ==
  \E w \in Workers :
    /\ worker[w].callbacks = <<[error |-> FALSE]>>
    /\ Len(worker[w].Records) = 2
    /\ \A i \in DOMAIN worker[w].rec :
         /\ worker[w].Records[i].eventName = "INSERT"
         /\ worker[w].rec[i].inProgress = "fail"
         /\ worker[w].rec[i].complete = "fail"
         /\ worker[w].rec[i].cached = "fail"

=============================================================================
